---- MODULE Spec2Model ----
(***************************************************************************)
(* Weaver.X (AI-Sheet Pro) client: the UI command poller and the           *)
(* confirmation protocol of App (src/unnamed/part_000), and the Command    *)
(* Executor with the Capability Layer (src/src/utils/sheetController.js).  *)
(*                                                                         *)
(* The client is a React component.  Its event handlers are async          *)
(* functions: each runs atomically up to its next `await fetch`, and every *)
(* handler reads the component state of the render it was created in, so a *)
(* continuation after an await still sees the values captured when the     *)
(* handler was invoked.  A network call in flight is one entry of `polls`  *)
(* or of `inflight`, carrying the values the continuation has captured.    *)
(* A response may arrive in any order relative to other calls, and a call  *)
(* may fail in transport instead.  The backend is not part of the client:  *)
(* what it answers is drawn from small sets, except for the queue of UI    *)
(* commands, whose drain is modelled.                                      *)
(***************************************************************************)
EXTENDS Integers, Sequences, FiniteSets, TLC

\* ------------------------------------------------------------------ bounds
MaxCmds == 3        \* commands the backend enqueues in one behaviour
MaxPolls == 2       \* poll fetches in flight at the same time
MaxClicks == 3      \* handler invocations in one behaviour
MaxQueries == 2     \* queries sent in one behaviour
MaxInFlight == 2    \* calls in flight when a handler is invoked
MaxRows == 3        \* rows of a query result
MaxSteps == 2       \* UI commands executed on the sheet in one behaviour
MaxFreeze == 2      \* rows or columns a freeze command asks for

\* ------------------------------------------------------------------ state
VARIABLES
    \* --- backend side of the UI command channel
    pendingQueue,   \* PendingQueue: commands enqueued and not yet drained
    nextCmd,        \* number of the next command the backend enqueues
    \* --- client side of the UI command channel
    intervalActive, \* the setInterval timer of the poller is live
    unmounted,      \* the owning view has been torn down
    polls,          \* poll fetches in flight, in the order they were issued
    executed,       \* commands handed to executeUICommand, in execution order
    faulty,         \* commands whose execution fails (unknown action, fault)
    \* --- observation of the channel (history, not program state)
    lostCmds,       \* commands drained by a fetch whose response was lost
    quiet,          \* a drain has happened and nothing was enqueued since
    quietDrainSeen, \* some drain happened while quiet
    quietDrained,   \* every command a drain returned while quiet
    lastPoll,       \* the step of the channel taken last: see PollStep
    \* --- React state of App (the values of the latest render)
    activeTab,      \* name of the active table, or Null
    tables,         \* the cached table list, in the backend's order
    sheetData,      \* the sheet view handed to the Workbook
    messages,       \* the chat transcript
    isLoading,      \* a query is being processed
    showConfirmModal,
    confirmData,    \* the open ConfirmationRequest, or NoConfirm
    saveAsName,     \* the name Save-As will use
    \* --- the network and the user
    inflight,       \* calls awaited by a handler, in the order they were issued
    alerts,         \* number of alert() dialogs shown
    clicks,         \* handler invocations so far
    selected,       \* the table of the user's latest selection (history)
    \* --- observation of App (history, not program state)
    last,           \* the handler step taken last: see Step
    openedFor,      \* the activeTab when the latest ConfirmationRequest opened
    requested,      \* temp tables a resolution request was sent for
    \* --- the spreadsheet engine and the Command Executor
    luckysheet,     \* window.luckysheet, the engine's sheet: see SheetState
    steps,          \* UI commands executed on the sheet so far
    exec            \* the execution done last: see Execution (history)

pollVars == <<pendingQueue, nextCmd, intervalActive, unmounted, polls,
              executed, faulty, lostCmds, quiet, quietDrainSeen, quietDrained,
              lastPoll>>

\* The React state of App.
uiVars == <<activeTab, tables, sheetData, messages, isLoading,
            showConfirmModal, confirmData, saveAsName>>

appVars == <<uiVars, inflight, alerts, clicks, selected, last, openedFor,
             requested>>

sheetVars == <<luckysheet, steps, exec>>

vars == <<pollVars, appVars, sheetVars>>

\* ------------------------------------------------------------------ helpers
Range(s) == {s[i] : i \in 1..Len(s)}

RemoveAt(s, i) == SubSeq(s, 1, i - 1) \o SubSeq(s, i + 1, Len(s))

NoDuplicates(s) == \A i, j \in 1..Len(s) : i # j => s[i] # s[j]

\* The number of queries sent so far: one user message each.
UserMessages(ms) == Cardinality({i \in 1..Len(ms) : ms[i].role = "user"})

\* ------------------------------------------------------------------ names
\* A table name is a prefix and a rest, so that the replace() that derives the
\* Save-As name from a temp table's name is a function of the name.
Null == [pre |-> "null", base |-> ""]          \* null (no active table)

EmptyName == [pre |-> "", base |-> ""]         \* '' (the initial saveAsName)

TempPrefix == "t_ai_temp_"

SaveAsLabel == "new_table_"                    \* the label replace() puts in

TableA == [pre |-> "", base |-> "A"]

TableB == [pre |-> "", base |-> "B"]

TableNames == {TableA, TableB}

TempNames == {[pre |-> TempPrefix, base |-> n] : n \in {"1", "2"}}

\* data.data.temp_table.replace('t_ai_temp_', <label>)
SuggestedName(temp) ==
    IF temp.pre = TempPrefix THEN [temp EXCEPT !.pre = SaveAsLabel] ELSE temp

\* The table lists GET /api/tables may return.
TableLists == {<<>>, <<TableA>>, <<TableA, TableB>>}

\* The texts data.data.answer may hold ('' when absent).
Answers == {"", "text"}

\* answer || fallback
OrElse(answer, fallback) == IF answer = "" THEN fallback ELSE answer

\* answer + ' (waiting for confirmation...)'
Pending(answer) ==
    IF answer = "" THEN " (awaiting confirmation)"
                   ELSE "text (awaiting confirmation)"

NoConfirm == [temp_table |-> Null, answer |-> ""]   \* confirmData === null

\* The initial sheet and the one shown after the active table is deleted.
EmptySheet == [name |-> [pre |-> "", base |-> "Sheet1"], rows |-> 0]

AiResultName == [pre |-> "", base |-> "AI result"]

\* A chat message; icon and text make up its content.
Msg(role, icon, text, loading) ==
    [role |-> role, icon |-> icon, text |-> text, isLoading |-> loading]

\* prev.filter(m => !m.isLoading)
DropLoading(ms) == SelectSeq(ms, LAMBDA m : ~m.isLoading)

\* ------------------------------------------------------------------ calls
\* A call in flight.  kind: the endpoint; arg: the table it names (the
\* target_name of an overwrite or rename); src: the source_table of an
\* overwrite or rename; tab: the activeTab of the render whose handler issued
\* the call; then: what resumes when it settles; ans: the text the resumed
\* code still has to display.
Call(kind, arg, src, tab, then, ans) ==
    [kind |-> kind, arg |-> arg, src |-> src, tab |-> tab, then |-> then,
     ans |-> ans]

NoCall == Call("none", Null, Null, Null, "none", "")

\* loadTableData(tableName) up to its await: the view request is sent.
ViewCall(tableName, then, ans) == Call("view", tableName, Null, Null, then, ans)

\* loadTables() up to its await: the table-list request is sent.
TablesCall(tab, arg, then, ans) == Call("tables", arg, Null, tab, then, ans)

\* How a call settles: success:true, success:false, or a transport failure.
Outcomes == {"ok", "rejected", "failed"}

\* What POST /api/ai/query may come back with.  outcome as in Outcomes; kind is
\* data.data.response_type; answer is data.data.answer ('' when absent); temp
\* is data.data.temp_table (Null when absent); shape classifies
\* data.data.result: null, an array of `rows` row objects, or the legacy
\* receipt {status:'success', message}, or `absent` when data.data itself is
\* missing, so that reading data.data.response_type raises.
Reply(outcome, kind, answer, temp, shape, rows) ==
    [outcome |-> outcome, kind |-> kind, answer |-> answer, temp |-> temp,
     shape |-> shape, rows |-> rows, cols |-> IF rows = 0 THEN 0 ELSE 1]

NoReply == Reply("none", "none", "", Null, "null", 0)

QueryReplies ==
    {Reply(o, "none", "", Null, "null", 0) : o \in {"rejected", "failed"}}
    \cup {Reply("ok", k, a, Null, "null", 0) :
              k \in {"clarify", "error", "ui"}, a \in Answers}
    \cup {Reply("ok", "data", a, t, "null", 0) :
              a \in Answers, t \in TempNames \cup {Null}}
    \cup {Reply("ok", "answer", "text", Null, "null", 0)}
    \cup {Reply("ok", "answer", "", Null, sh, 0) : sh \in {"null", "legacy"}}
    \cup {Reply("ok", "answer", "", Null, "rows", n) : n \in 2..MaxRows}
    \* rows that are objects without a key
    \cup {[Reply("ok", "answer", "", Null, "rows", n) EXCEPT !.cols = 0] :
              n \in 2..MaxRows}
    \* success:true without data: the dispatch raises a TypeError
    \cup {Reply("ok", "none", "", Null, "absent", 0)}

\* The record of a handler step.  op: the handler; outcome: "sent" or "noop"
\* for an invocation, how the call settled for a continuation, the branch
\* taken for a dispatch; call: the call the continuation resumed from; sent:
\* the calls the step issued; reply, list: what the settled call returned.
Step(op, outcome, call, sent, reply, list) ==
    [op |-> op, outcome |-> outcome, call |-> call, sent |-> sent,
     reply |-> reply, list |-> list]

\* An invocation by the user that issued `sent`.
Invoked(op, sent) ==
    Step(op, IF sent = <<>> THEN "noop" ELSE "sent", NoCall, sent,
         NoReply, <<>>)

\* A continuation of handler op, resumed from call c.
Resumed(op, outcome, c, sent) == Step(op, outcome, c, sent, NoReply, <<>>)

\* ------------------------------------------------------------------ App
\* After the first render: the mount effect has called loadTables().
InitApp ==
    /\ activeTab = Null
    /\ tables = <<>>
    /\ sheetData = EmptySheet
    /\ messages = <<Msg("assistant", "", "welcome", FALSE)>>
    /\ isLoading = FALSE
    /\ showConfirmModal = FALSE
    /\ confirmData = NoConfirm
    /\ saveAsName = EmptyName
    /\ inflight = <<TablesCall(Null, Null, "mount", "")>>
    /\ alerts = 0
    /\ clicks = 0
    /\ selected = Null
    /\ last = Step("init", "none", NoCall, <<>>, NoReply, <<>>)
    /\ openedFor = Null
    /\ requested = {}

\* One more invocation of a handler by the user.
Click ==
    /\ clicks < MaxClicks
    /\ Len(inflight) < MaxInFlight
    /\ clicks' = clicks + 1

\* --- user-initiated handlers, up to their first await

\* onClick of a table-list item: loadTableData(t.name).
SelectTable(t) ==
    /\ Click
    /\ t \in Range(tables)
    /\ inflight' = Append(inflight, ViewCall(t, "select", ""))
    /\ last' = Invoked("select", <<ViewCall(t, "select", "")>>)
    /\ selected' = t
    /\ UNCHANGED <<openedFor, requested>>
    /\ UNCHANGED <<uiVars, alerts>>
    /\ UNCHANGED pollVars
    /\ UNCHANGED sheetVars

\* handleDeleteTable(tableName), up to the DELETE request.
HandleDeleteTable(t) ==
    LET sent == <<Call("delete", t, Null, activeTab, "delete", "")>> IN
    /\ Click
    /\ t \in Range(tables)
    /\ inflight' = inflight \o sent
    /\ last' = Invoked("delete", sent)
    /\ UNCHANGED <<uiVars, alerts>>
    /\ UNCHANGED selected
    /\ UNCHANGED <<openedFor, requested>>
    /\ UNCHANGED pollVars
    /\ UNCHANGED sheetVars

\* The guard of handleSendMessage: it returns at once when the input is
\* empty or a query is being processed.
SendRefusedWhenEmpty(empty) == empty

SendRefused(empty) == empty \/ isLoading

\* handleSendMessage, up to the query request.  empty: inputValue.trim() is ''.
HandleSendMessage(empty) ==
    LET sent == IF SendRefused(empty)
                  THEN <<>>
                  ELSE <<Call("query", Null, Null, activeTab, "query", "")>>
    IN
    /\ Click
    /\ IF sent = <<>>
         THEN UNCHANGED <<messages, isLoading>>
         ELSE /\ UserMessages(messages) < MaxQueries
              /\ messages' = messages \o
                     <<Msg("user", "", "query", FALSE),
                       Msg("assistant", "wait", "analysing", TRUE)>>
              /\ isLoading' = TRUE
    /\ inflight' = inflight \o sent
    /\ last' = Invoked("send", sent)
    /\ UNCHANGED <<activeTab, tables, sheetData, showConfirmModal,
                   confirmData, saveAsName, alerts>>
    /\ UNCHANGED selected
    /\ UNCHANGED <<openedFor, requested>>
    /\ UNCHANGED pollVars
    /\ UNCHANGED sheetVars

\* The request of handleConfirmOverwrite: source_table is the temp table of
\* the open ConfirmationRequest, target_name the active table.
OverwriteRequestSwapped ==
    Call("overwrite", confirmData.temp_table, activeTab, activeTab,
         "overwrite", "")

OverwriteRequest ==
    Call("overwrite", activeTab, confirmData.temp_table, activeTab,
         "overwrite", "")

\* The request of handleConfirmSaveAs.
RenameRequest ==
    Call("rename", saveAsName, confirmData.temp_table, activeTab,
         "rename", "")

\* The request of handleConfirmCancel.
DiscardRequest ==
    Call("discard", confirmData.temp_table, Null, activeTab, "discard", "")

\* The guards of the three resolutions: when they hold the handler returns
\* at once.
OverwriteRefusedWhenIdle == confirmData = NoConfirm

OverwriteRefused == confirmData = NoConfirm \/ activeTab = Null

SaveAsRefused == confirmData = NoConfirm \/ saveAsName = EmptyName

CancelNeverRefused == FALSE

CancelRefused == confirmData = NoConfirm

\* handleConfirmOverwrite (Commit), up to the overwrite request.
HandleConfirmOverwrite ==
    LET sent == IF OverwriteRefused THEN <<>> ELSE <<OverwriteRequest>> IN
    /\ Click
    /\ inflight' = inflight \o sent
    /\ last' = Invoked("commit", sent)
    /\ UNCHANGED <<uiVars, alerts>>
    /\ UNCHANGED selected
    /\ requested' = requested \cup {sent[k].src : k \in 1..Len(sent)}
    /\ UNCHANGED openedFor
    /\ UNCHANGED pollVars
    /\ UNCHANGED sheetVars

\* handleConfirmSaveAs, up to the rename request.
HandleConfirmSaveAs ==
    LET sent == IF SaveAsRefused THEN <<>> ELSE <<RenameRequest>> IN
    /\ Click
    /\ inflight' = inflight \o sent
    /\ last' = Invoked("saveAs", sent)
    /\ UNCHANGED <<uiVars, alerts>>
    /\ UNCHANGED selected
    /\ requested' = requested \cup {sent[k].src : k \in 1..Len(sent)}
    /\ UNCHANGED openedFor
    /\ UNCHANGED pollVars
    /\ UNCHANGED sheetVars

\* handleConfirmCancel (Discard), up to the DELETE of the temp table.
HandleConfirmCancel ==
    LET sent == IF CancelRefused THEN <<>> ELSE <<DiscardRequest>> IN
    /\ Click
    /\ inflight' = inflight \o sent
    /\ last' = Invoked("discard", sent)
    /\ UNCHANGED <<uiVars, alerts>>
    /\ UNCHANGED selected
    /\ requested' = requested \cup {sent[k].arg : k \in 1..Len(sent)}
    /\ UNCHANGED openedFor
    /\ UNCHANGED pollVars
    /\ UNCHANGED sheetVars

\* --- continuations: a call settles and the awaiting handler resumes

\* The calls in flight once call i has settled and `more` were issued.
Settled(i, more) == RemoveAt(inflight, i) \o more

\* The number of data rows POST /api/data/view returns; one row stands for
\* any table contents.
ViewRowCounts == {1}

\* The tail of handleSendMessage: the final message of the query.
FinishQuery(ms, icon, text) == Append(ms, Msg("assistant", icon, text, FALSE))

\* loadTableData after its await.  The caller that awaited it, if any, is the
\* data or the legacy branch of handleSendMessage, which then finishes.
LoadTableDataDone(i, outcome, rows) ==
    LET c == inflight[i] IN
    /\ c.kind = "view"
    /\ IF outcome = "ok"
         THEN /\ activeTab' = c.arg
              /\ sheetData' = [name |-> c.arg, rows |-> rows]
         ELSE UNCHANGED <<activeTab, sheetData>>
    /\ IF c.then \in {"dataView", "legacy"}
         THEN /\ messages' = FinishQuery(messages, "done", c.ans)
              /\ isLoading' = FALSE
         ELSE UNCHANGED <<messages, isLoading>>
    /\ inflight' = Settled(i, <<>>)
    /\ last' = Resumed("viewDone", IF outcome = "ok" THEN "ok" ELSE "failed",
                       c, <<>>)
    /\ UNCHANGED <<tables, showConfirmModal, confirmData, saveAsName,
                   alerts, clicks>>
    /\ UNCHANGED selected
    /\ UNCHANGED <<openedFor, requested>>
    /\ UNCHANGED pollVars
    /\ UNCHANGED sheetVars

\* The table handleConfirmSaveAs switches to and loads after the refresh:
\* the saveAsName it was invoked with.
SaveAsTargetStale(c) == c.tab

SaveAsTarget(c) == c.arg

\* The data branch of handleSendMessage after `await loadTables()`:
\* if (activeTab) await loadTableData(activeTab), with the activeTab of the
\* render that sent the query.
NoReloadAfterRefresh(c) == <<>>

ReloadAfterRefresh(c) ==
    IF c.tab # Null THEN <<ViewCall(c.tab, "dataView", c.ans)>> ELSE <<>>

\* loadTables after its await, followed by the code of the handler that
\* awaited it (both run before any other callback).
\* c.tab is the activeTab loadTables reads; c.then names the awaiting handler.
LoadTablesDone(i, outcome, list) ==
    LET c == inflight[i]
        auto == outcome = "ok" /\ Len(list) > 0 /\ c.tab = Null
        autoCalls == IF auto THEN <<ViewCall(list[1], "auto", "")>> ELSE <<>>
        tabAfterLoad == IF auto THEN list[1] ELSE activeTab
        \* the calls the awaiting handler issues next
        next == CASE c.then = "overwrite" ->
                       \* handleConfirmOverwrite: loadTableData(activeTab)
                       <<ViewCall(c.tab, "overwriteView", "")>>
                  [] c.then = "rename" ->
                       \* handleConfirmSaveAs: loadTableData(saveAsName)
                       <<ViewCall(SaveAsTarget(c), "renameView", "")>>
                  [] c.then = "data" -> ReloadAfterRefresh(c)
                  [] OTHER -> <<>>
        sent == autoCalls \o next
    IN
    /\ c.kind = "tables"
    /\ tables' = IF outcome = "ok" THEN list ELSE tables
    /\ activeTab' = IF c.then = "rename" THEN SaveAsTarget(c)
                                         ELSE tabAfterLoad
    /\ IF c.then = "data" /\ next = <<>>
         THEN /\ messages' = FinishQuery(messages, "done", c.ans)
              /\ isLoading' = FALSE
         ELSE UNCHANGED <<messages, isLoading>>
    /\ inflight' = Settled(i, sent)
    /\ last' = Step("tablesDone", IF outcome = "ok" THEN "ok" ELSE "failed",
                    c, sent, NoReply, IF outcome = "ok" THEN list ELSE <<>>)
    /\ UNCHANGED <<sheetData, showConfirmModal, confirmData, saveAsName,
                   alerts, clicks>>
    /\ UNCHANGED selected
    /\ UNCHANGED <<openedFor, requested>>
    /\ UNCHANGED pollVars
    /\ UNCHANGED sheetVars

\* handleDeleteTable after its await.
DeleteTableDone(i, outcome) ==
    LET c == inflight[i]
        sent == IF outcome = "ok"
                  THEN <<TablesCall(c.tab, c.arg, "delete", "")>>
                  ELSE <<>>
    IN
    /\ c.kind = "delete"
    /\ messages' = Append(messages,
           Msg("assistant", "",
               CASE outcome = "ok" -> "deleted"
                 [] outcome = "rejected" -> "delete rejected"
                 [] OTHER -> "delete request failed", FALSE))
    /\ IF outcome = "ok" /\ c.tab = c.arg
         THEN /\ activeTab' = Null
              /\ sheetData' = EmptySheet
         ELSE UNCHANGED <<activeTab, sheetData>>
    /\ inflight' = Settled(i, sent)
    /\ last' = Resumed("deleteDone", outcome, c, sent)
    /\ UNCHANGED <<tables, isLoading, showConfirmModal, confirmData,
                   saveAsName, alerts, clicks>>
    /\ UNCHANGED selected
    /\ UNCHANGED <<openedFor, requested>>
    /\ UNCHANGED pollVars
    /\ UNCHANGED sheetVars

\* The confirmation state after the success branch of Commit or Save-As:
\* setConfirmData(null).
KeepConfirmation(cd) == cd

ClearConfirmation(cd) == NoConfirm

\* The confirmation state after the failure branches of Commit and Save-As,
\* which only alert.
DropOnFailure(cd) == NoConfirm

KeepOnFailure(cd) == cd

\* The confirmation state after handleConfirmCancel resumed: the fetch is
\* awaited inside an empty catch and its reply is never read, so every
\* outcome ends in setConfirmData(null).
ClearIfDeleted(cd, outcome) == IF outcome = "ok" THEN NoConfirm ELSE cd

ClearAfterDiscard(cd, outcome) == NoConfirm

\* handleConfirmOverwrite after its await.
ConfirmOverwriteDone(i, outcome) ==
    LET c == inflight[i]
        sent == IF outcome = "ok"
                  THEN <<TablesCall(c.tab, c.arg, "overwrite", "")>>
                  ELSE <<>>
    IN
    /\ c.kind = "overwrite"
    /\ IF outcome = "ok"
         THEN /\ messages' = Append(messages,
                      Msg("assistant", "done", "overwritten", FALSE))
              /\ showConfirmModal' = FALSE
              /\ confirmData' = ClearConfirmation(confirmData)
              /\ UNCHANGED alerts
         ELSE /\ alerts' = alerts + 1
              /\ confirmData' = KeepOnFailure(confirmData)
              /\ UNCHANGED <<messages, showConfirmModal>>
    /\ inflight' = Settled(i, sent)
    /\ last' = Resumed("overwriteDone", outcome, c, sent)
    /\ UNCHANGED <<activeTab, tables, sheetData, isLoading, saveAsName,
                   clicks>>
    /\ UNCHANGED selected
    /\ UNCHANGED <<openedFor, requested>>
    /\ UNCHANGED pollVars
    /\ UNCHANGED sheetVars

\* handleConfirmSaveAs after its await.
ConfirmSaveAsDone(i, outcome) ==
    LET c == inflight[i]
        sent == IF outcome = "ok"
                  THEN <<TablesCall(c.tab, c.arg, "rename", "")>>
                  ELSE <<>>
    IN
    /\ c.kind = "rename"
    /\ IF outcome = "ok"
         THEN /\ messages' = Append(messages,
                      Msg("assistant", "done", "saved as", FALSE))
              /\ showConfirmModal' = FALSE
              /\ confirmData' = ClearConfirmation(confirmData)
              /\ UNCHANGED alerts
         ELSE /\ alerts' = alerts + 1
              /\ confirmData' = KeepOnFailure(confirmData)
              /\ UNCHANGED <<messages, showConfirmModal>>
    /\ inflight' = Settled(i, sent)
    /\ last' = Resumed("renameDone", outcome, c, sent)
    /\ UNCHANGED <<activeTab, tables, sheetData, isLoading, saveAsName,
                   clicks>>
    /\ UNCHANGED selected
    /\ UNCHANGED <<openedFor, requested>>
    /\ UNCHANGED pollVars
    /\ UNCHANGED sheetVars

\* handleConfirmCancel after its await.
ConfirmCancelDone(i, outcome) ==
    LET c == inflight[i] IN
    /\ c.kind = "discard"
    /\ messages' = Append(messages, Msg("assistant", "", "discarded", FALSE))
    /\ showConfirmModal' = FALSE
    /\ confirmData' = ClearAfterDiscard(confirmData, outcome)
    /\ inflight' = Settled(i, <<>>)
    /\ last' = Resumed("discardDone", outcome, c, <<>>)
    /\ UNCHANGED <<activeTab, tables, sheetData, isLoading, saveAsName,
                   alerts, clicks>>
    /\ UNCHANGED selected
    /\ UNCHANGED <<openedFor, requested>>
    /\ UNCHANGED pollVars
    /\ UNCHANGED sheetVars

\* --- the Response Dispatcher: handleSendMessage after its await

\* The data branch with a temp table: the ConfirmationRequest it opens.
OpenConfirmationNoAnswer(r) == [temp_table |-> r.temp, answer |-> ""]

OpenConfirmation(r) == [temp_table |-> r.temp, answer |-> r.answer]

\* renderResult(result) for an array of n row objects with at least one key.
\* renderResult dropping the last row.
RenderResultShort(result, view) ==
    IF result.cols = 0 THEN view
    ELSE [name |-> AiResultName, rows |-> result.rows - 1]

\* renderResult(result) for an array of result.rows objects with result.cols
\* keys each: nothing when there is no column, else the result view with one
\* header row and a row per object; view is the sheet view before.
RenderResult(result, view) ==
    IF result.cols = 0 THEN view
    ELSE [name |-> AiResultName, rows |-> result.rows]

\* `查询成功，返回 ${result.length} 条结果`
RowsReturned(n) == <<"no rows returned", "1 row returned", "2 rows returned",
                     "3 rows returned">>[n + 1]

\* The branch of the dispatcher reply r takes.
BranchUiAsData(r) ==
    CASE r.outcome # "ok" -> r.outcome
      [] r.shape = "absent" -> "threw"
      [] r.kind = "data" /\ r.temp # Null -> "dataStaged"
      [] r.kind \in {"data", "ui"} -> "dataApplied"
      [] r.kind = "answer" /\ r.answer = "" -> r.shape
      [] OTHER -> r.kind

BranchFailureAsData(r) ==
    CASE r.outcome = "rejected" -> r.outcome
      [] r.shape = "absent" -> "threw"
      [] r.kind = "data" /\ r.temp # Null -> "dataStaged"
      [] r.kind = "data" \/ r.outcome = "failed" -> "dataApplied"
      [] r.kind = "answer" /\ r.answer = "" -> r.shape
      [] OTHER -> r.kind

Branch(r) ==
    CASE r.outcome # "ok" -> r.outcome
      [] r.shape = "absent" -> "threw"
      [] r.kind = "data" /\ r.temp # Null -> "dataStaged"
      [] r.kind = "data" -> "dataApplied"
      [] r.kind = "answer" /\ r.answer = "" -> r.shape
      [] OTHER -> r.kind

HandleQueryReply(i, r) ==
    LET c == inflight[i]
        shown == DropLoading(messages)
        b == Branch(r)
        \* the calls the branch awaits before the final message
        sent == CASE b = "dataApplied" ->
                       \* await loadTables(), then the view
                       <<TablesCall(c.tab, Null, "data",
                                    OrElse(r.answer, "data operation done"))>>
                  [] b = "legacy" /\ c.tab # Null ->
                       \* if (activeTab) await loadTableData(activeTab)
                       <<ViewCall(c.tab, "legacy", "legacy receipt")>>
                  [] OTHER -> <<>>
        icon == CASE b \in {"failed", "rejected", "threw"} -> ""
                  [] b \in {"dataStaged", "legacy"} -> "done"
                  [] b \in {"null", "rows"} -> "answer"
                  [] OTHER -> r.kind
        text == CASE b \in {"failed", "threw"} -> "request failed"
                  [] b = "rejected" -> "query rejected"
                  [] b = "clarify" -> r.answer
                  [] b = "error" -> OrElse(r.answer, "operation failed")
                  [] b = "ui" -> OrElse(r.answer, "style updated")
                  [] b = "dataStaged" -> Pending(r.answer)
                  [] b = "answer" -> r.answer
                  [] b = "null" -> "query complete"
                  [] b = "rows" -> RowsReturned(r.rows)
                  [] OTHER -> "legacy receipt"
    IN
    /\ c.kind = "query"
    /\ IF sent = <<>>
         THEN /\ messages' = FinishQuery(shown, icon, text)
              /\ isLoading' = FALSE
         ELSE /\ messages' = shown
              /\ UNCHANGED isLoading
    /\ IF b = "dataStaged"
         THEN \* safe mode: stage the mutation and ask for confirmation
              /\ confirmData' = OpenConfirmation(r)
              /\ saveAsName' = SuggestedName(r.temp)
              /\ showConfirmModal' = TRUE
         ELSE UNCHANGED <<confirmData, saveAsName, showConfirmModal>>
    /\ sheetData' = IF b = "rows" THEN RenderResult(r, sheetData)
                                   ELSE sheetData
    /\ inflight' = Settled(i, sent)
    /\ last' = Step("dispatch", b, c, sent, r, <<>>)
    /\ UNCHANGED <<activeTab, tables, alerts, clicks>>
    /\ UNCHANGED selected
    /\ openedFor' = IF b = "dataStaged" THEN activeTab ELSE openedFor
    /\ UNCHANGED requested
    /\ UNCHANGED pollVars
    /\ UNCHANGED sheetVars

\* ------------------------------------------------------------------ poller
\* A command is identified by the number the backend gave it when it was
\* enqueued: command a was enqueued before command b iff a < b.

\* A poll fetch in flight.  stage: "sent" until the backend has answered,
\* "served" once the reply is on its way, "stalled" when the backend will
\* never answer; success and commands are the fields of the reply.
Poll(stage, success, commands) ==
    [stage |-> stage, success |-> success, commands |-> commands]

NoPoll == Poll("none", FALSE, <<>>)

\* The record of a step of the channel.  op: the step; reply: the poll the
\* step settled; results: what executeUICommand returned for each command the
\* step ran, in the order they ran.
PollStep(op, reply, results) ==
    [op |-> op, reply |-> reply, results |-> results]

InitPoll ==
    /\ pendingQueue = <<>>
    /\ nextCmd = 1
    /\ intervalActive = TRUE
    /\ unmounted = FALSE
    /\ polls = <<>>
    /\ executed = <<>>
    /\ faulty = {}
    /\ lostCmds = {}
    /\ quiet = FALSE
    /\ quietDrainSeen = FALSE
    /\ quietDrained = {}
    /\ lastPoll = PollStep("init", NoPoll, <<>>)

\* The backend appends a command to the PendingQueue.  bad: the command names
\* an unknown action, or its primitive will fail or throw.
Enqueue(bad) ==
    /\ nextCmd <= MaxCmds
    /\ pendingQueue' = Append(pendingQueue, nextCmd)
    /\ nextCmd' = nextCmd + 1
    /\ faulty' = IF bad THEN faulty \cup {nextCmd} ELSE faulty
    /\ quiet' = FALSE
    /\ lastPoll' = PollStep("enqueue", NoPoll, <<>>)
    /\ UNCHANGED <<intervalActive, unmounted, polls, executed, lostCmds,
                   quietDrainSeen, quietDrained>>
    /\ UNCHANGED appVars
    /\ UNCHANGED sheetVars

\* Whether the timer fires pollUICommands: setInterval knows nothing of the
\* fetches still in flight, only clearInterval stops it.
MayTickWhenIdle == intervalActive /\ polls = <<>>

MayTick == intervalActive

\* setInterval fires pollUICommands: fetch(/api/ui/pending) is issued, whether
\* or not an earlier fetch is still in flight.
PollTick ==
    /\ MayTick
    /\ Len(polls) < MaxPolls
    /\ polls' = Append(polls, Poll("sent", FALSE, <<>>))
    /\ lastPoll' = PollStep("tick", NoPoll, <<>>)
    /\ UNCHANGED <<pendingQueue, nextCmd, intervalActive, unmounted, executed,
                   faulty, lostCmds, quiet, quietDrainSeen, quietDrained>>
    /\ UNCHANGED appVars
    /\ UNCHANGED sheetVars

\* GET /api/ui/pending reaches the backend, which drains the queue: the reply
\* carries every queued command in FIFO order and the queue is left empty.
DrainQueue(i) ==
    /\ polls' = [polls EXCEPT ![i] = Poll("served", TRUE, pendingQueue)]
    /\ pendingQueue' = <<>>
    /\ quiet' = TRUE
    /\ quietDrainSeen' = (quietDrainSeen \/ quiet)
    /\ quietDrained' = IF quiet THEN quietDrained \cup Range(pendingQueue)
                                ELSE quietDrained

ServePending(i) ==
    /\ i \in 1..Len(polls)
    /\ polls[i].stage = "sent"
    /\ DrainQueue(i)
    /\ lastPoll' = PollStep("serve", NoPoll, <<>>)
    /\ UNCHANGED <<nextCmd, intervalActive, unmounted, executed, faulty,
                   lostCmds>>
    /\ UNCHANGED appVars
    /\ UNCHANGED sheetVars

\* The backend answers the poll with success:false and drains nothing.
ServePendingError(i) ==
    /\ i \in 1..Len(polls)
    /\ polls[i].stage = "sent"
    /\ polls' = [polls EXCEPT ![i] = Poll("served", FALSE, <<>>)]
    /\ lastPoll' = PollStep("serveError", NoPoll, <<>>)
    /\ UNCHANGED <<pendingQueue, nextCmd, intervalActive, unmounted, executed,
                   faulty, lostCmds, quiet, quietDrainSeen, quietDrained>>
    /\ UNCHANGED appVars
    /\ UNCHANGED sheetVars

\* executeUICommand(command): the switch and the primitive run inside a
\* try/catch, so an unknown action, a failed primitive and a thrown fault all
\* come back as a result with success false.
ExecuteUICommand(cmd) == [command |-> cmd, success |-> cmd \notin faulty]

\* if (data.success && data.commands && data.commands.length > 0)
Accepted(reply) == reply.success /\ Len(reply.commands) > 0

\* The for loop of pollUICommands: each command of the reply, in the order of
\* the list, goes to executeUICommand, whatever the earlier ones returned.
RunBatchTwice(cmds) == executed \o cmds \o cmds

RunBatchUntilFailure(cmds) ==
    LET bad == {k \in 1..Len(cmds) : ~ExecuteUICommand(cmds[k]).success} IN
    IF bad = {} THEN executed \o cmds
    ELSE executed \o SubSeq(cmds, 1, CHOOSE k \in bad : \A j \in bad : k <= j)

RunBatchReversed(cmds) ==
    executed \o [k \in 1..Len(cmds) |-> cmds[Len(cmds) + 1 - k]]

RunBatch(cmds) == executed \o cmds

\* The continuation of pollUICommands after `await res.json()`.  It runs
\* whether or not the effect has been cleaned up in the meantime.
PollResponse(i) ==
    LET reply == polls[i]
        ran == SubSeq(RunBatch(reply.commands), Len(executed) + 1,
                      Len(RunBatch(reply.commands)))
    IN
    /\ i \in 1..Len(polls)
    /\ reply.stage = "served"
    /\ executed' = IF Accepted(reply) THEN RunBatch(reply.commands)
                                      ELSE executed
    /\ polls' = RemoveAt(polls, i)
    /\ lastPoll' = PollStep("response", reply,
                            IF Accepted(reply)
                              THEN [k \in 1..Len(ran) |->
                                       ExecuteUICommand(ran[k])]
                              ELSE <<>>)
    /\ UNCHANGED <<pendingQueue, nextCmd, intervalActive, unmounted, faulty,
                   lostCmds, quiet, quietDrainSeen, quietDrained>>
    /\ UNCHANGED appVars
    /\ UNCHANGED sheetVars

\* The timer after the catch block of pollUICommands ran: the catch is empty
\* and the interval is left as it is.
HaltOnFailure == FALSE

AfterPollFailure == intervalActive

\* fetch or res.json() rejects: the catch block of pollUICommands swallows
\* it.  The request may have been lost before it reached the backend, or the
\* reply after the backend drained the queue.
PollFail(i) ==
    /\ i \in 1..Len(polls)
    /\ polls[i].stage # "stalled"
    /\ polls' = RemoveAt(polls, i)
    /\ intervalActive' = AfterPollFailure
    /\ lostCmds' = lostCmds \cup Range(polls[i].commands)
    /\ lastPoll' = PollStep("fail", polls[i], <<>>)
    /\ UNCHANGED <<pendingQueue, nextCmd, unmounted, executed, faulty,
                   quiet, quietDrainSeen, quietDrained>>
    /\ UNCHANGED appVars
    /\ UNCHANGED sheetVars

\* The backend stalls on a poll fetch: it is never answered, and the fetch,
\* which has no timeout, never settles.
Stall(i) ==
    /\ i \in 1..Len(polls)
    /\ polls[i].stage = "sent"
    /\ \A k \in 1..Len(polls) : polls[k].stage # "stalled"
    /\ polls' = [polls EXCEPT ![i] = Poll("stalled", FALSE, <<>>)]
    /\ lastPoll' = PollStep("stall", NoPoll, <<>>)
    /\ UNCHANGED <<pendingQueue, nextCmd, intervalActive, unmounted, executed,
                   faulty, lostCmds, quiet, quietDrainSeen, quietDrained>>
    /\ UNCHANGED appVars
    /\ UNCHANGED sheetVars

\* The timer after the effect cleanup: clearInterval(interval).
KeepInterval == TRUE

ClearInterval == FALSE

\* The owning view is torn down: the effect cleanup runs.
Teardown ==
    /\ ~unmounted
    /\ unmounted' = TRUE
    /\ intervalActive' = ClearInterval
    /\ lastPoll' = PollStep("teardown", NoPoll, <<>>)
    /\ UNCHANGED <<pendingQueue, nextCmd, polls, executed, faulty,
                   lostCmds, quiet, quietDrainSeen, quietDrained>>
    /\ UNCHANGED appVars
    /\ UNCHANGED sheetVars

\* ------------------------------------------------------------------ sheet
\* The Capability Layer (src/src/utils/sheetController.js) and the Command
\* Executor.  The spreadsheet engine (window.luckysheet) is not part of the
\* client's code: a capability is modelled by the primitive calls it makes on
\* the engine and the result it returns, and the engine by the effect each
\* primitive has on the sheet.

\* --- JavaScript values and the coercions the capabilities rely on
Num(n) == [s |-> "", n |-> n, t |-> "num"]

Str(s) == [s |-> s, n |-> 0, t |-> "str"]

Undef == [s |-> "", n |-> 0, t |-> "undef"]       \* undefined

NullV == [s |-> "", n |-> 0, t |-> "null"]        \* null

ObjectV == [s |-> "", n |-> 0, t |-> "object"]    \* a cell object used as a value

NaN == [s |-> "", n |-> 0, t |-> "nan"]

\* Boolean(v)
Truthy(v) ==
    CASE v.t = "num" -> v.n # 0
      [] v.t = "str" -> v.s # ""
      [] v.t = "object" -> TRUE
      [] OTHER -> FALSE

\* a || b
OrJs(a, b) == IF Truthy(a) THEN a ELSE b

\* a ?? b
Coalesce(a, b) == IF a.t \in {"undef", "null"} THEN b ELSE a

\* The numbers a sheet or a command may hold, with their decimal text.
Numerals == {<<0, "0">>, <<25, "25">>, <<30, "30">>, <<35, "35">>, <<40, "40">>}

\* String(v)
StringOf(v) ==
    CASE v.t = "num" -> (CHOOSE p \in Numerals : p[1] = v.n)[2]
      [] v.t = "str" -> v.s
      [] v.t = "undef" -> "undefined"
      [] v.t = "null" -> "null"
      [] v.t = "nan" -> "NaN"
      [] OTHER -> "[object Object]"

\* Number(v): NaN for undefined, an object and a text that is no numeral.
ToNumber(v) ==
    CASE v.t = "num" -> v
      [] v.t = "null" -> Num(0)
      [] v.t = "str" /\ v.s = "" -> Num(0)
      [] v.t = "str" /\ (\E p \in Numerals : p[2] = v.s) ->
             Num((CHOOSE p \in Numerals : p[2] = v.s)[1])
      [] OTHER -> NaN

\* Number(a) < Number(b)
LessJs(a, b) ==
    /\ ToNumber(a).t = "num"
    /\ ToNumber(b).t = "num"
    /\ ToNumber(a).n < ToNumber(b).n

\* a == b (loose equality)
LooseEq(a, b) ==
    CASE a.t = b.t -> a.t # "nan" /\ a.t # "object" /\ a = b
      [] a.t \in {"undef", "null"} /\ b.t \in {"undef", "null"} -> TRUE
      [] a.t \in {"undef", "null"} \/ b.t \in {"undef", "null"} -> FALSE
      [] a.t = "object" \/ b.t = "object" ->
             \* the object becomes the text "[object Object]"
             /\ "str" \in {a.t, b.t}
             /\ "[object Object]" \in {a.s, b.s}
      [] OTHER -> ToNumber(a).t = "num" /\ ToNumber(a) = ToNumber(b)

\* The pairs <<text, part>> with part a substring of text, other than the
\* empty part and the text itself, among the texts a sheet or a command holds.
ProperParts ==
    {<<"archived", "arch">>, <<"undefined", "un">>, <<"null", "nu">>}

\* text.includes(part): case-sensitive substring.
Includes(text, part) ==
    part = "" \/ text = part \/ <<text, part>> \in ProperParts

\* A text of forty characters.
LongText == "0123456789012345678901234567890123456789"

\* String(v).length
TextLength(v) ==
    LET s == StringOf(v)
        table == {<<"", 0>>, <<"0", 1>>, <<"25", 2>>, <<"30", 2>>,
                  <<"35", 2>>, <<"40", 2>>, <<"id", 2>>, <<"age", 3>>, <<"zip", 3>>,
                  <<"null", 4>>, <<"arch", 4>>, <<"status", 6>>,
                  <<"active", 6>>, <<"archived", 8>>, <<"undefined", 9>>,
                  <<"[object Object]", 15>>, <<LongText, 40>>}
    IN IF \E p \in table : p[1] = s
         THEN (CHOOSE p \in table : p[1] = s)[2]
         ELSE 0

\* --- cells and sheets
NoStyle == [fc |-> "", bg |-> "", bl |-> 0]

\* An empty position of the grid (null in the engine's data).
NullCell == [m |-> Undef, v |-> Undef, nul |-> TRUE, style |-> NoStyle]

\* A cell as loadTableData and renderResult write it: value and display text.
Cell(v, m) == [m |-> m, v |-> v, nul |-> FALSE, style |-> NoStyle]

TextCell(s) == Cell(Str(s), Str(s))

NumCell(n) == Cell(Num(n), Str(StringOf(Num(n))))

\* cell?.v, cell?.m and the cell itself as a value
ValueOf(cell) == IF cell.nul THEN Undef ELSE cell.v

DisplayOf(cell) == IF cell.nul THEN Undef ELSE cell.m

AsValue(cell) == IF cell.nul THEN NullV ELSE ObjectV

\* The grid is a sequence of rows of cells; the code counts rows and columns
\* from 0.
CellAt(rows, r, c) == rows[r + 1][c + 1]

NoRange == [row |-> <<0, 0>>, column |-> <<0, 0>>]

NoBorder == [style |-> 0, range |-> NoRange, borderType |-> ""]

Unfrozen == [rows |-> 0, cols |-> 0]

\* The state of the engine's sheet: whether window.luckysheet exists, the
\* grid getSheetData returns (null, or rows of cells), the hidden rows, the
\* frozen extent, the column widths set so far, the selection and the border.
SheetState(present, isNull, rows) ==
    [rows |-> rows, range |-> NoRange, present |-> present,
     isNull |-> isNull, hidden |-> {}, frozen |-> Unfrozen, widths |-> {},
     border |-> NoBorder]

\* --- the engine's primitives, as the calls a capability makes
PCall(op, row, col, n, rowSet, style, flag, range) ==
    [n |-> n, op |-> op, style |-> style, row |-> row, range |-> range,
     col |-> col, rowSet |-> rowSet, flag |-> flag]

GetSheetData == PCall("getSheetData", 0, 0, 0, {}, NoStyle, "", NoRange)

Refresh == PCall("refresh", 0, 0, 0, {}, NoStyle, "", NoRange)

SetCellValue(r, c, style) ==
    PCall("setCellValue", r, c, 0, {}, style, "", NoRange)

SetFrozen(type, row_focus, column_focus) ==
    PCall("setFrozen", row_focus, column_focus, 0, {}, NoStyle, type, NoRange)

SetColumnWidth(c, width) ==
    PCall("setColumnWidth", 0, c, width, {}, NoStyle, "", NoRange)

SetRangeShow(range) == PCall("setRangeShow", 0, 0, 0, {}, NoStyle, "", range)

SetBorderInfo(borderType, style) ==
    PCall("setBorderInfo", 0, 0, style, {}, NoStyle, borderType, NoRange)

HideRow(rowSet) == PCall("hideRow", 0, 0, 0, rowSet, NoStyle, "", NoRange)

ShowRow(rowSet) == PCall("showRow", 0, 0, 0, rowSet, NoStyle, "", NoRange)

OrderByRow(col, isAsc) ==
    PCall("orderByRow", 0, col, 0, {}, NoStyle,
          IF isAsc THEN "asc" ELSE "desc", NoRange)

\* --- the engine: the effect of one primitive on the sheet
\* setCellValue with a style object writes the given attributes of the cell.
Restyle(cell, style) ==
    [m |-> DisplayOf(cell), v |-> ValueOf(cell), nul |-> FALSE,
     style |-> [fc |-> IF style.fc # "" THEN style.fc ELSE cell.style.fc,
                bg |-> IF style.bg # "" THEN style.bg ELSE cell.style.bg,
                bl |-> IF style.bl # 0 THEN style.bl ELSE cell.style.bl]]

\* The order orderByRow sorts by: numbers by value, then texts, then blanks.
SortRank(cell) ==
    LET v == Coalesce(ValueOf(cell), DisplayOf(cell))
    IN CASE v.t = "num" -> v.n
         [] v.t = "str" /\ v.s = "active" -> 1001
         [] v.t = "str" /\ v.s = "archived" -> 1002
         [] v.t = "str" -> 1003
         [] OTHER -> 2000

\* rows[from..to] (counted from 0) sorted by column col, ties in their order.
RECURSIVE InsertSorted(_, _, _, _)
InsertSorted(sorted, row, col, isAsc) ==
    IF sorted = <<>> THEN <<row>>
    ELSE LET before == IF isAsc
                         THEN SortRank(Head(sorted)[col + 1]) <= SortRank(row[col + 1])
                         ELSE SortRank(Head(sorted)[col + 1]) >= SortRank(row[col + 1])
         IN IF before
              THEN <<Head(sorted)>> \o InsertSorted(Tail(sorted), row, col, isAsc)
              ELSE <<row>> \o sorted

RECURSIVE SortRows(_, _, _)
SortRows(rows, col, isAsc) ==
    IF rows = <<>> THEN <<>>
    ELSE InsertSorted(SortRows(SubSeq(rows, 1, Len(rows) - 1), col, isAsc),
                      rows[Len(rows)], col, isAsc)

Engine(sheet, call) ==
    CASE call.op = "setCellValue" ->
           [sheet EXCEPT !.rows[call.row + 1][call.col + 1] =
                             Restyle(@, call.style)]
      [] call.op = "setFrozen" ->
           \* 'rangeRow' freezes the rows down to row_focus; 'rangeBoth' the
           \* rows down to row_focus and the columns up to column_focus
           [sheet EXCEPT !.frozen =
               IF call.flag = "rangeRow"
                 THEN [rows |-> call.row + 1, cols |-> 0]
                 ELSE [rows |-> call.row + 1, cols |-> call.col + 1]]
      [] call.op = "setColumnWidth" ->
           [sheet EXCEPT !.widths =
               {w \in @ : w[1] # call.col} \cup {<<call.col, call.n>>}]
      [] call.op = "setRangeShow" -> [sheet EXCEPT !.range = call.range]
      [] call.op = "setBorderInfo" ->
           [sheet EXCEPT !.border = [style |-> call.n,
                                     range |-> sheet.range,
                                     borderType |-> call.flag]]
      [] call.op = "hideRow" ->
           [sheet EXCEPT !.hidden = @ \cup call.rowSet]
      [] call.op = "showRow" ->
           [sheet EXCEPT !.hidden = @ \ call.rowSet]
      [] call.op = "orderByRow" ->
           LET from == sheet.range.row[1]
               to == sheet.range.row[2]
           IN IF from > to \/ to >= Len(sheet.rows) THEN sheet
              ELSE [sheet EXCEPT !.rows =
                      SubSeq(@, 1, from)
                        \o SortRows(SubSeq(@, from + 1, to + 1), call.col,
                                    call.flag = "asc")
                        \o SubSeq(@, to + 2, Len(@))]
      [] OTHER -> sheet   \* getSheetData and refresh change nothing

\* --- the Capability Layer
\* An ExecutionResult: success with a message, or failure with an error text;
\* count and name are the values the text is built from.
Success(text, count, name) ==
    [name |-> name, text |-> text, success |-> TRUE, count |-> count]

Failure(text, name) ==
    [name |-> name, text |-> text, success |-> FALSE, count |-> 0]

\* What a capability does: the primitive calls it makes, in order, and the
\* result it returns when none of them raises.
Outcome(calls, result) == [calls |-> calls, result |-> result]

SheetNotAvailable == Outcome(<<>>, Failure("Sheet not available", ""))

NoData == Outcome(<<GetSheetData>>, Failure("No data", ""))

ColumnNotFound(columnName) ==
    Outcome(<<GetSheetData>>, Failure("column not found", columnName))

\* !data || data.length === 0
DataMissing(sheet) == sheet.isNull \/ sheet.rows = <<>>

\* data[0]?.length || 0
ColCount(sheet) == Len(sheet.rows[1])

\* The elements of a set of row numbers in increasing order, as a loop over
\* r = 1, 2, ... meets them.
Ascending(S) ==
    [i \in 1..Cardinality(S) |->
        CHOOSE x \in S : Cardinality({y \in S : y <= x}) = i]

\* The header lookup shared by setConditionalFormat, hideRowsWhere and
\* sortByColumn: the first column of row 0 whose value, or else display text,
\* or else the cell itself, reads as columnName; -1 when there is none.
HeaderText(cell) ==
    StringOf(OrJs(OrJs(ValueOf(cell), DisplayOf(cell)), AsValue(cell)))

FindColumnRightmost(sheet, columnName) ==
    LET found == {c \in 0..(ColCount(sheet) - 1) :
                     HeaderText(CellAt(sheet.rows, 0, c)) = columnName}
    IN IF found = {} THEN -1
       ELSE CHOOSE c \in found : \A d \in found : d <= c

\* A lookup that falls back to the first column.
FindColumnOrFirst(sheet, columnName) ==
    LET found == {c \in 0..(ColCount(sheet) - 1) :
                     HeaderText(CellAt(sheet.rows, 0, c)) = columnName}
    IN IF found = {} THEN 0
       ELSE CHOOSE c \in found : \A d \in found : c <= d

FindColumn(sheet, columnName) ==
    LET found == {c \in 0..(ColCount(sheet) - 1) :
                     HeaderText(CellAt(sheet.rows, 0, c)) = columnName}
    IN IF found = {} THEN -1
       ELSE CHOOSE c \in found : \A d \in found : c <= d

SetHeaderStyle(sheet, bold, bgColor) ==
    IF ~sheet.present THEN SheetNotAvailable
    ELSE IF DataMissing(sheet) THEN NoData
    ELSE LET boldCall(c) == SetCellValue(0, c, [NoStyle EXCEPT !.bl = 1])
             bgCall(c) == SetCellValue(0, c, [NoStyle EXCEPT !.bg = bgColor])
             n == ColCount(sheet)
             cells ==
               CASE bold /\ bgColor # "" ->
                      [i \in 1..(2 * n) |->
                          IF i % 2 = 1 THEN boldCall((i - 1) \div 2)
                                       ELSE bgCall((i - 1) \div 2)]
                 [] bold -> [i \in 1..n |-> boldCall(i - 1)]
                 [] bgColor # "" -> [i \in 1..n |-> bgCall(i - 1)]
                 [] OTHER -> <<>>
         IN Outcome(<<GetSheetData>> \o cells \o <<Refresh>>,
                    Success("header style set", 0, bgColor))

FreezeColumns(sheet, count) ==
    IF ~sheet.present THEN SheetNotAvailable
    ELSE Outcome(<<SetFrozen("rangeBoth", 0, count - 1)>>,
                 Success("columns frozen", count, ""))

FreezeRows(sheet, count) ==
    IF ~sheet.present THEN SheetNotAvailable
    ELSE Outcome(<<SetFrozen("rangeRow", count - 1, 0)>>,
                 Success("rows frozen", count, ""))

\* The width limits and the number of rows autoFitColumnWidth reads.
MinWidth == 50

MaxWidth == 300

ScanRows == 100

Min(a, b) == IF a < b THEN a ELSE b

Max(a, b) == IF a > b THEN a ELSE b

\* String(value).length * 10 + 20 for value = cell?.v || cell?.m || ''
TextWidth(cell) ==
    TextLength(OrJs(OrJs(ValueOf(cell), DisplayOf(cell)), Str(""))) * 10 + 20

\* maxWidth after the loop over the rows r < Math.min(data.length, limit):
\* the largest of the least width and the clamped text widths of column c.
FitWidth(rows, c, limit) ==
    LET widths == {MinWidth}
                    \cup {Min(TextWidth(CellAt(rows, r, c)), MaxWidth) :
                             r \in 0..(Min(Len(rows), limit) - 1)}
    IN CHOOSE w \in widths : \A v \in widths : v <= w

AutoFitAllRows(sheet) ==
    IF ~sheet.present THEN SheetNotAvailable
    ELSE IF DataMissing(sheet) THEN NoData
    ELSE Outcome(<<GetSheetData>>
                   \o [i \in 1..ColCount(sheet) |->
                         SetColumnWidth(i - 1, FitWidth(sheet.rows, i - 1,
                                                        Len(sheet.rows)))]
                   \o <<Refresh>>,
                 Success("widths fitted", 0, ""))

AutoFitColumnWidth(sheet) ==
    IF ~sheet.present THEN SheetNotAvailable
    ELSE IF DataMissing(sheet) THEN NoData
    ELSE Outcome(<<GetSheetData>>
                   \o [i \in 1..ColCount(sheet) |->
                         SetColumnWidth(i - 1, FitWidth(sheet.rows, i - 1,
                                                        ScanRows))]
                   \o <<Refresh>>,
                 Success("widths fitted", 0, ""))

\* The test of setConditionalFormat on cellValue = cell?.v ?? cell?.m ?? cell
Matches(cell, operator, value) ==
    LET cellValue == Coalesce(Coalesce(ValueOf(cell), DisplayOf(cell)),
                              AsValue(cell))
    IN CASE operator = "<" -> LessJs(cellValue, value)
         [] operator = ">" -> LessJs(value, cellValue)
         [] operator \in {"=", "=="} -> LooseEq(cellValue, value)
         [] operator = "contains" ->
                Includes(StringOf(cellValue), StringOf(value))
         [] OTHER -> FALSE

SetConditionalFormat(sheet, columnName, operator, value, color, bgColor) ==
    IF ~sheet.present THEN SheetNotAvailable
    ELSE IF DataMissing(sheet) THEN NoData
    ELSE IF FindColumn(sheet, columnName) = -1 THEN ColumnNotFound(columnName)
    ELSE LET colIndex == FindColumn(sheet, columnName)
             matching == Ascending({r \in 1..(Len(sheet.rows) - 1) :
                            Matches(CellAt(sheet.rows, r, colIndex),
                                    operator, value)})
             style == [fc |-> color, bg |-> bgColor, bl |-> 0]
         IN Outcome(<<GetSheetData>>
                      \o [i \in 1..Len(matching) |->
                            SetCellValue(matching[i], colIndex, style)]
                      \o <<Refresh>>,
                    Success("conditional format applied", Len(matching), ""))

BorderStyle(outerStyle) ==
    CASE outerStyle = "thin" -> 1
      [] outerStyle = "medium" -> 2
      [] outerStyle = "thick" -> 3
      [] OTHER -> 2

SetBorder(sheet, type, outerStyle) ==
    IF ~sheet.present THEN SheetNotAvailable
    ELSE IF DataMissing(sheet) THEN NoData
    ELSE Outcome(<<GetSheetData,
                   SetRangeShow([row |-> <<0, Len(sheet.rows) - 1>>,
                                 column |-> <<0, ColCount(sheet) - 1>>]),
                   SetBorderInfo(CASE type = "outer" -> "border-outside"
                                   [] type = "inner" -> "border-inside"
                                   [] OTHER -> "border-all",
                                 BorderStyle(outerStyle))>>,
                 Success("border added", 0, type))

\* The test a row passes when its cell reads exactly as the text.
IsText(cell, contains) ==
    StringOf(Coalesce(Coalesce(Coalesce(ValueOf(cell), DisplayOf(cell)),
                               AsValue(cell)), Str(""))) = contains

\* The test of hideRowsWhere on cell?.v ?? cell?.m ?? cell ?? ''
HasText(cell, contains) ==
    Includes(StringOf(Coalesce(Coalesce(Coalesce(ValueOf(cell),
                                                 DisplayOf(cell)),
                                        AsValue(cell)), Str(""))),
             contains)

HideRowsWhere(sheet, columnName, contains) ==
    IF ~sheet.present THEN SheetNotAvailable
    ELSE IF DataMissing(sheet) THEN NoData
    ELSE IF FindColumn(sheet, columnName) = -1 THEN ColumnNotFound(columnName)
    ELSE LET colIndex == FindColumn(sheet, columnName)
             rowsToHide == {r \in 1..(Len(sheet.rows) - 1) :
                               HasText(CellAt(sheet.rows, r, colIndex),
                                       contains)}
         IN Outcome(<<GetSheetData>>
                      \o (IF rowsToHide # {} THEN <<HideRow(rowsToHide)>>
                                             ELSE <<>>),
                    Success("rows hidden", Cardinality(rowsToHide), contains))

\* showAllRows passing over the header row and the first data row.
ShowDataRows(sheet) ==
    IF ~sheet.present THEN SheetNotAvailable
    ELSE IF sheet.isNull
           THEN Outcome(<<GetSheetData>>, Failure("TypeError", ""))
    ELSE Outcome(<<GetSheetData, ShowRow(2..(Len(sheet.rows) - 1))>>,
                 Success("all rows shown", 0, ""))

ShowAllRows(sheet) ==
    IF ~sheet.present THEN SheetNotAvailable
    ELSE IF sheet.isNull
           \* data.length on null raises a TypeError, which the catch reports
           THEN Outcome(<<GetSheetData>>, Failure("TypeError", ""))
    ELSE Outcome(<<GetSheetData, ShowRow(0..(Len(sheet.rows) - 1))>>,
                 Success("all rows shown", 0, ""))

SortByColumn(sheet, columnName, ascending) ==
    IF ~sheet.present THEN SheetNotAvailable
    ELSE IF DataMissing(sheet) THEN NoData
    ELSE IF FindColumn(sheet, columnName) = -1 THEN ColumnNotFound(columnName)
    ELSE Outcome(<<GetSheetData,
                   SetRangeShow([row |-> <<1, Len(sheet.rows) - 1>>,
                                 column |-> <<0, ColCount(sheet) - 1>>]),
                   OrderByRow(FindColumn(sheet, columnName), ascending)>>,
                 Success("sorted", 0, columnName))

\* --- the Command Executor
\* A UI command: the action name and the fields the capabilities read.
Command(action) ==
    [column |-> "", type |-> "", count |-> 0, bold |-> FALSE, bgColor |-> "",
     operator |-> "", value |-> Undef, color |-> "", outerStyle |-> "",
     contains |-> "", ascending |-> TRUE, action |-> action]

\* The capabilities that address a column by its header name.
ColumnAddressed == {"setConditionalFormat", "hideRowsWhere", "sortByColumn"}

CapabilityNames ==
    {"setHeaderStyle", "freezeColumns", "freezeRows", "autoFitColumnWidth",
     "setConditionalFormat", "setBorder", "hideRowsWhere", "showAllRows",
     "sortByColumn"}

\* An executor that reads the sheet before it rejects the action.
UnknownAfterRead(command) ==
    Outcome(<<GetSheetData>>, Failure("unknown command", command.action))

\* default: return { success: false, error: `未知命令: ${command.action}` }
UnknownCommand(command) ==
    Outcome(<<>>, Failure("unknown command", command.action))

\* executeUICommand: the capability the action names, with the command's
\* fields as its parameters.
ExecuteUICommandOnSheet(sheet, command) ==
    CASE command.action = "setHeaderStyle" ->
           SetHeaderStyle(sheet, command.bold, command.bgColor)
      [] command.action = "freezeColumns" ->
           FreezeColumns(sheet, command.count)
      [] command.action = "freezeRows" -> FreezeRows(sheet, command.count)
      [] command.action = "autoFitColumnWidth" -> AutoFitColumnWidth(sheet)
      [] command.action = "setConditionalFormat" ->
           SetConditionalFormat(sheet, command.column, command.operator,
                                command.value, command.color, command.bgColor)
      [] command.action = "setBorder" ->
           SetBorder(sheet, command.type, command.outerStyle)
      [] command.action = "hideRowsWhere" ->
           HideRowsWhere(sheet, command.column, command.contains)
      [] command.action = "showAllRows" -> ShowAllRows(sheet)
      [] command.action = "sortByColumn" ->
           SortByColumn(sheet, command.column, command.ascending)
      [] OTHER -> UnknownCommand(command)

\* The sheet after the engine has served the calls in order.
RECURSIVE ApplyCalls(_, _)
ApplyCalls(sheet, calls) ==
    IF calls = <<>> THEN sheet
    ELSE ApplyCalls(Engine(sheet, Head(calls)), Tail(calls))

\* A capability without its catch: the fault leaves it.
Rethrow == [result |-> Failure("", ""), caught |-> FALSE]

\* catch (e) { return { success: false, error: e.message } }
CatchFault == [result |-> Failure("engine fault", ""), caught |-> TRUE]

\* One execution: the calls run until the one numbered faultAt raises (none
\* when faultAt is 0 or beyond the last call); the catch of the capability
\* turns the fault into a failure result carrying the fault's message.
Execution(sheet, command, faultAt) ==
    LET outcome == ExecuteUICommandOnSheet(sheet, command)
        raised == faultAt \in 1..Len(outcome.calls)
        served == IF raised THEN SubSeq(outcome.calls, 1, faultAt - 1)
                            ELSE outcome.calls
    IN [command |-> command,
        before |-> sheet,
        result |-> IF raised THEN CatchFault.result ELSE outcome.result,
        raised |-> raised,
        invoked |-> IF raised THEN SubSeq(outcome.calls, 1, faultAt)
                              ELSE outcome.calls,
        thrown |-> raised /\ ~CatchFault.caught,
        after |-> ApplyCalls(sheet, served)]

\* --- the sheets and the commands of the checked runs
ColumnNames == {"age", "status", "zip"}

\* Header rows of two columns: distinct names, the same name twice, a header
\* holding only display text, and an empty header cell.
HeaderRows ==
    {<<TextCell("age"), TextCell("status")>>,
     <<TextCell("age"), TextCell("age")>>,
     <<TextCell("status"), TextCell("status")>>,
     <<Cell(Undef, Str("status")), TextCell("age")>>,
     <<NullCell, TextCell("status")>>}

\* The data of the first column, top to bottom.
DataColumns ==
    {<<>>,
     <<TextCell("archived")>>,
     <<NumCell(25), NumCell(35), NumCell(40)>>,
     <<NumCell(40), NullCell, NumCell(25)>>,
     <<TextCell("active"), TextCell("archived"), TextCell("archived")>>,
     <<TextCell("status"), NullCell, TextCell("active")>>,
     <<NumCell(35), TextCell("35"), Cell(Num(0), Str("0"))>>}

\* The data of the second column in row r.
SecondColumn(r) == IF r % 2 = 1 THEN TextCell("archived") ELSE NumCell(30)

Grid(header, column) ==
    <<header>> \o [r \in 1..Len(column) |-> <<column[r], SecondColumn(r)>>]

\* A sheet of one column and 101 rows whose only long text is in row longRow.
TallGrid(longRow) ==
    [r \in 1..(ScanRows + 1) |->
        <<IF r - 1 = longRow THEN TextCell(LongText) ELSE TextCell("id")>>]

Sheets ==
    {SheetState(TRUE, FALSE, Grid(h, d)) : h \in HeaderRows, d \in DataColumns}
      \cup {SheetState(TRUE, FALSE, TallGrid(r)) : r \in {ScanRows - 1, ScanRows}}
      \cup {SheetState(FALSE, FALSE, <<>>),     \* no engine
            SheetState(TRUE, TRUE, <<>>),       \* getSheetData returns null
            SheetState(TRUE, FALSE, <<>>)}      \* no rows

\* The call of an execution that raises: none, the first, or the third.
FaultPoints == {0, 1, 3}

\* The conditions of the setConditionalFormat commands: operator, value,
\* text colour and background colour.
Conditions ==
    {<<"<", Num(30), "red", "">>, <<">", Num(30), "", "#ffcccc">>,
     <<"=", Num(35), "red", "#ffcccc">>, <<"==", Str("35"), "", "">>,
     <<"contains", Str("arch"), "red", "">>,
     <<"contains", Str("nu"), "", "#ffcccc">>,
     <<"between", Num(30), "red", "">>}

ExecuteCommand(command, faultAt) ==
    /\ steps < MaxSteps
    /\ steps' = steps + 1
    /\ LET execution == Execution(luckysheet, command, faultAt)
       IN /\ exec' = execution
          /\ luckysheet' = execution.after
    /\ UNCHANGED <<pollVars, appVars>>

SetHeaderStyleCommand ==
    \E bold \in BOOLEAN, bgColor \in {"", "#e8e8e8"}, f \in FaultPoints :
        ExecuteCommand([Command("setHeaderStyle") EXCEPT
                           !.bold = bold, !.bgColor = bgColor], f)

FreezeColumnsCommand ==
    \E count \in 0..MaxFreeze, f \in FaultPoints :
        ExecuteCommand([Command("freezeColumns") EXCEPT !.count = count], f)

FreezeRowsCommand ==
    \E count \in 0..MaxFreeze, f \in FaultPoints :
        ExecuteCommand([Command("freezeRows") EXCEPT !.count = count], f)

AutoFitColumnWidthCommand ==
    \E f \in FaultPoints : ExecuteCommand(Command("autoFitColumnWidth"), f)

SetConditionalFormatCommand ==
    \E column \in ColumnNames, cond \in Conditions, f \in FaultPoints :
        ExecuteCommand([Command("setConditionalFormat") EXCEPT
                           !.column = column, !.operator = cond[1],
                           !.value = cond[2], !.color = cond[3],
                           !.bgColor = cond[4]], f)

SetBorderCommand ==
    \E border \in {<<"all", "thick">>, <<"outer", "dashed">>},
       f \in FaultPoints :
        ExecuteCommand([Command("setBorder") EXCEPT
                           !.type = border[1], !.outerStyle = border[2]], f)

HideRowsWhereCommand ==
    \E column \in ColumnNames, contains \in {"arch", "Arch", "status"},
       f \in FaultPoints :
        ExecuteCommand([Command("hideRowsWhere") EXCEPT
                           !.column = column, !.contains = contains], f)

ShowAllRowsCommand ==
    \E f \in FaultPoints : ExecuteCommand(Command("showAllRows"), f)

SortByColumnCommand ==
    \E column \in ColumnNames, ascending \in BOOLEAN, f \in FaultPoints :
        ExecuteCommand([Command("sortByColumn") EXCEPT
                           !.column = column, !.ascending = ascending], f)

UnknownActionCommand ==
    \E action \in {"deleteSheet", ""}, f \in FaultPoints :
        ExecuteCommand(Command(action), f)

\* Before any command: nothing executed on the sheet.
NoExecution(s) ==
    [command |-> Command("none"), before |-> s,
     result |-> Success("", 0, ""), raised |-> FALSE, invoked |-> <<>>,
     thrown |-> FALSE, after |-> s]

InitSheet ==
    /\ InitPoll
    /\ InitApp
    /\ luckysheet \in Sheets
    /\ steps = 0
    /\ exec = NoExecution(luckysheet)

NextSheet ==
    \/ SetHeaderStyleCommand
    \/ FreezeColumnsCommand
    \/ FreezeRowsCommand
    \/ AutoFitColumnWidthCommand
    \/ SetConditionalFormatCommand
    \/ SetBorderCommand
    \/ HideRowsWhereCommand
    \/ ShowAllRowsCommand
    \/ SortByColumnCommand
    \/ UnknownActionCommand

SpecSheet == InitSheet /\ [][NextSheet]_vars

\* ------------------------------------------------------------------ Spec
\* The sheet of a behaviour that executes no UI command on it.
IdleSheet == SheetState(TRUE, FALSE, <<>>)

Init ==
    /\ InitPoll
    /\ InitApp
    /\ luckysheet = IdleSheet
    /\ steps = 0
    /\ exec = NoExecution(IdleSheet)

Next ==
    \/ \E t \in TableNames : SelectTable(t)
    \/ \E t \in TableNames : HandleDeleteTable(t)
    \/ \E empty \in BOOLEAN : HandleSendMessage(empty)
    \/ HandleConfirmOverwrite
    \/ HandleConfirmSaveAs
    \/ HandleConfirmCancel
    \/ \E i \in 1..Len(inflight), o \in Outcomes, n \in ViewRowCounts :
           LoadTableDataDone(i, o, n)
    \/ \E i \in 1..Len(inflight), o \in Outcomes, l \in TableLists :
           LoadTablesDone(i, o, l)
    \/ \E i \in 1..Len(inflight), o \in Outcomes : DeleteTableDone(i, o)
    \/ \E i \in 1..Len(inflight), o \in Outcomes : ConfirmOverwriteDone(i, o)
    \/ \E i \in 1..Len(inflight), o \in Outcomes : ConfirmSaveAsDone(i, o)
    \/ \E i \in 1..Len(inflight), o \in Outcomes : ConfirmCancelDone(i, o)
    \/ \E i \in 1..Len(inflight), r \in QueryReplies : HandleQueryReply(i, r)

\* The confirmation protocol and the Response Dispatcher.
Spec == Init /\ [][Next]_vars

NextPoll ==
    \/ \E bad \in BOOLEAN : Enqueue(bad)
    \/ PollTick
    \/ \E i \in 1..MaxPolls : ServePending(i)
    \/ \E i \in 1..MaxPolls : ServePendingError(i)
    \/ \E i \in 1..MaxPolls : PollResponse(i)
    \/ \E i \in 1..MaxPolls : PollFail(i)
    \/ Teardown

\* The UI command channel.
SpecPoll == Init /\ [][NextPoll]_vars

NextStall ==
    \/ NextPoll
    \/ \E i \in 1..MaxPolls : Stall(i)

\* Every command in a reply on its way is delivered unless the reply is lost.
ResponseDelivered(c) ==
    \E i \in 1..MaxPolls :
        PollResponse(i) /\ c \in Range(polls[i].commands)

\* The UI command channel with a backend that may stall on one fetch: the
\* timer keeps firing, the backend answers the fetches it does not stall on,
\* and a reply on its way arrives unless it is lost.
SpecStall ==
    /\ Init
    /\ [][NextStall]_vars
    /\ WF_vars(PollTick)
    /\ SF_vars(\E i \in 1..MaxPolls : ServePending(i))
    /\ WF_vars(\E i \in 1..MaxPolls : PollResponse(i))
    /\ \A c \in 1..MaxCmds : WF_vars(ResponseDelivered(c))

\* ------------------------------------------------------------------ claims

\* C1: for any two commands A and B where the backend enqueued A before B and
\* the client executes both, the client executes A before B, in every
\* interleaving of poll ticks and responses.
ExecutedInEnqueueOrder ==
    \A i, j \in 1..Len(executed) : i < j => executed[i] < executed[j]

\* C2: an overwrite or rename request is sent only by an invocation of Commit
\* or Save-As made while a ConfirmationRequest is open, and its source_table
\* is the temp table of that request; no continuation, dispatch or Discard
\* sends one.
MutationOnlyByResolution ==
    (\E k \in 1..Len(last.sent) : last.sent[k].kind \in {"overwrite", "rename"})
    => /\ last.op \in {"commit", "saveAs"}
       /\ last.outcome = "sent"
       /\ confirmData # NoConfirm
       /\ Len(last.sent) = 1
       /\ last.sent[1].src = confirmData.temp_table
       /\ last.sent[1].kind = IF last.op = "commit" THEN "overwrite"
                                                    ELSE "rename"
       /\ inflight # <<>>
       /\ inflight[Len(inflight)] = last.sent[1]

MutationWitness ==
    /\ last.op = "commit"
    /\ last.outcome = "sent"
    /\ last.sent[1].src \in TempNames
    /\ last.sent[1].arg \in TableNames

\* C3: a ConfirmationRequest is opened only when none is open: dispatching a
\* data response that carries a temp table never replaces an open request.
OpenedOnlyWhenIdle ==
    [][last'.op = "dispatch" /\ last'.outcome = "dataStaged"
          => confirmData = NoConfirm]_vars

\* C4: every enqueued command is executed at most once; a command drained by
\* a fetch whose response is lost is never executed later; and a drain with
\* no enqueue since the drain before it returns no commands.
AtMostOnceDelivery ==
    /\ NoDuplicates(executed)
    /\ lostCmds \cap Range(executed) = {}
    /\ quietDrained = {}

AtMostOnceWitness ==
    /\ lostCmds # {}
    /\ Len(executed) >= 2
    /\ quietDrainSeen

\* C5: when a Commit or Save-As request is answered success:false or fails in
\* transport, the confirmation state (with its temp table), the table list,
\* the active table and the sheet view are left as they were.
FailedResolutionKeepsState ==
    [][last'.op \in {"overwriteDone", "renameDone"}
         /\ last'.outcome \in {"rejected", "failed"}
          => /\ UNCHANGED <<confirmData, showConfirmModal, saveAsName,
                            tables, activeTab, sheetData, messages>>
             /\ last'.sent = <<>>]_vars

FailedResolutionWitness ==
    /\ last.op = "overwriteDone"
    /\ last.outcome = "rejected"
    /\ confirmData # NoConfirm
    /\ confirmData.temp_table = last.call.src
    /\ showConfirmModal

\* C6: when the overwrite request of a Commit succeeds the ConfirmationRequest
\* is cleared and the table list is requested; when that request settles the
\* view of the overwritten table is requested, and its reply becomes the
\* sheet view; and a ConfirmationRequest is opened only by the dispatch of a
\* data response that carries a temp table.
CommitSuccessClearsAndReloads ==
    [][/\ last'.op = "overwriteDone" /\ last'.outcome = "ok"
            => /\ confirmData' = NoConfirm
               /\ ~showConfirmModal'
               /\ last'.sent = <<TablesCall(last'.call.tab, last'.call.arg,
                                            "overwrite", "")>>
       /\ last'.op = "tablesDone" /\ last'.call.then = "overwrite"
            => /\ last'.outcome = "ok" => tables' = last'.list
               /\ last'.sent = <<ViewCall(last'.call.tab, "overwriteView", "")>>
       /\ last'.op = "viewDone" /\ last'.call.then = "overwriteView"
                                /\ last'.outcome = "ok"
            => /\ activeTab' = last'.call.arg
               /\ sheetData'.name = last'.call.arg
       /\ confirmData = NoConfirm /\ confirmData' # NoConfirm
            => /\ last'.op = "dispatch"
               /\ last'.reply.kind = "data"
               /\ last'.reply.temp = confirmData'.temp_table]_vars

CommitSuccessWitness ==
    /\ last.op = "viewDone"
    /\ last.outcome = "ok"
    /\ last.call.then = "overwriteView"
    /\ confirmData = NoConfirm
    /\ sheetData.name = activeTab
    /\ \E k \in 1..Len(messages) : messages[k].text = "overwritten"

\* C7: when the rename request of a Save-As succeeds the ConfirmationRequest
\* is cleared and the table list is requested; when that request settles the
\* active table becomes the name Save-As was invoked with and its view is
\* requested; and when that load succeeds the active table is that name and
\* the sheet view shows that table.
SaveAsSuccessSwitches ==
    [][/\ last'.op = "saveAs" /\ last'.outcome = "sent"
            => last'.sent[1].arg = saveAsName
       /\ last'.op = "renameDone" /\ last'.outcome = "ok"
            => /\ confirmData' = NoConfirm
               /\ ~showConfirmModal'
               /\ last'.sent = <<TablesCall(last'.call.tab, last'.call.arg,
                                            "rename", "")>>
       /\ last'.op = "tablesDone" /\ last'.call.then = "rename"
            => /\ last'.outcome = "ok" => tables' = last'.list
               /\ activeTab' = last'.call.arg
               /\ last'.sent # <<>>
               /\ last'.sent[Len(last'.sent)] =
                      ViewCall(last'.call.arg, "renameView", "")
       /\ last'.op = "viewDone" /\ last'.call.then = "renameView"
                                /\ last'.outcome = "ok"
            => /\ activeTab' = last'.call.arg
               /\ sheetData'.name = last'.call.arg]_vars

SaveAsSuccessWitness ==
    /\ last.op = "viewDone"
    /\ last.outcome = "ok"
    /\ last.call.then = "renameView"
    /\ confirmData = NoConfirm
    /\ activeTab = [pre |-> SaveAsLabel, base |-> "1"]
    /\ sheetData.name = activeTab

\* C8: Discard invoked with a ConfirmationRequest open clears it when the
\* DELETE settles, whether it succeeded, was answered with a failure or
\* failed in transport, and neither step of Discard changes the table list,
\* the active table or the sheet view.
DiscardAlwaysClears ==
    [][/\ last'.op = "discardDone"
            => /\ confirmData' = NoConfirm
               /\ ~showConfirmModal'
               /\ last'.sent = <<>>
               /\ UNCHANGED <<tables, activeTab, sheetData>>
       /\ last'.op = "discard"
            => UNCHANGED <<tables, activeTab, sheetData>>]_vars

DiscardWitness ==
    /\ last.op = "discardDone"
    /\ last.outcome = "failed"
    /\ last.call.arg \in TempNames
    /\ confirmData = NoConfirm

\* C9: Commit, Save-As or Discard invoked with no ConfirmationRequest open
\* sends no request, appends no message and changes no client state.
ResolutionWhenIdleIsNoOp ==
    [][last'.op \in {"commit", "saveAs", "discard"} /\ confirmData = NoConfirm
          => /\ last'.outcome = "noop"
             /\ last'.sent = <<>>
             /\ UNCHANGED <<uiVars, inflight, alerts>>]_vars

\* Save-As has completed and Discard was attempted after it.
ResolutionWhenIdleWitness ==
    /\ last.op = "discard"
    /\ last.outcome = "noop"
    /\ confirmData = NoConfirm
    /\ \E k \in 1..Len(messages) : messages[k].text = "saved as"

\* C10: dispatching a data response that carries a temp table opens a
\* ConfirmationRequest holding that temp table and the response's answer,
\* sends no request, and leaves the table list, the active table and the
\* sheet view unchanged.
StagingOpensWithoutRefresh ==
    [][last'.op = "dispatch" /\ last'.outcome = "dataStaged"
          => /\ confirmData' = [temp_table |-> last'.reply.temp,
                                answer |-> last'.reply.answer]
             /\ showConfirmModal'
             /\ last'.sent = <<>>
             /\ Len(inflight') = Len(inflight) - 1
             /\ UNCHANGED <<tables, activeTab, sheetData>>]_vars

StagingWitness ==
    /\ last.op = "dispatch"
    /\ last.outcome = "dataStaged"
    /\ last.reply.answer = "text"
    /\ confirmData = [temp_table |-> [pre |-> TempPrefix, base |-> "2"],
                      answer |-> "text"]

PlainReplyOnlyAppends ==
    [][last'.op = "dispatch" /\ last'.reply.outcome = "ok"
          /\ last'.reply.kind \in {"clarify", "error", "ui"}
          => /\ \E m \in {Msg("assistant", last'.reply.kind, t, FALSE) :
                             t \in {last'.reply.answer, "operation failed",
                                    "style updated"}} :
                    messages' = Append(DropLoading(messages), m)
             /\ Len(messages') = Len(messages)
             /\ last'.sent = <<>>
             /\ Len(inflight') = Len(inflight) - 1
             /\ UNCHANGED <<tables, activeTab, sheetData, confirmData,
                            showConfirmModal, saveAsName>>]_vars

\* A ui reply dispatched with a table active and a ConfirmationRequest open.
PlainReplyWitness ==
    /\ last.op = "dispatch"
    /\ last.reply.kind = "ui"
    /\ activeTab # Null
    /\ tables # <<>>
    /\ confirmData # NoConfirm
    /\ messages[Len(messages)].icon = "ui"

\* C13: when the query call fails in transport the client replaces the
\* loading placeholder by an error message of its own, sends no request, and
\* leaves the table list, the active table, the sheet view and the
\* confirmation state as they were.
QueryFailureOnlyReports ==
    [][last'.op = "dispatch" /\ last'.reply.outcome = "failed"
          => /\ messages' = Append(DropLoading(messages),
                     Msg("assistant", "", "request failed", FALSE))
             /\ ~isLoading'
             /\ last'.sent = <<>>
             /\ Len(inflight') = Len(inflight) - 1
             /\ UNCHANGED <<tables, activeTab, sheetData, confirmData,
                            showConfirmModal, saveAsName>>]_vars

\* A query failed with a table active and a ConfirmationRequest open.
QueryFailureWitness ==
    /\ last.op = "dispatch"
    /\ last.reply.outcome = "failed"
    /\ activeTab # Null
    /\ confirmData # NoConfirm
    /\ messages[Len(messages)].text = "request failed"
    /\ \A k \in 1..Len(messages) : ~messages[k].isLoading

\* C14: a table-reload response never overrides a later selection: when the
\* table of the user's latest selection is loaded and shown, the response of
\* a reload issued for another table (by an earlier selection, or by a query
\* dispatch for the table the query was sent from) leaves the active table
\* and the sheet view showing the selected table.
StaleReloadNeverOverrides ==
    [][(/\ last'.op = "viewDone"
        /\ last'.call.then \in {"select", "dataView"}
        /\ selected # Null
        /\ last'.call.arg # selected
        /\ activeTab = selected
        /\ sheetData.name = selected
        /\ \A k \in 1..Len(inflight) :
               ~(inflight[k].then = "select" /\ inflight[k].arg = selected))
          => /\ activeTab' = selected
             /\ sheetData'.name = selected]_vars

\* C15: a poll whose fetch fails in transport, or whose reply is not a
\* success with at least one command, executes no command, changes no state
\* of App and nothing of the queue, and leaves the timer running with room
\* for the next tick.
FailedPollIsSilent ==
    [][(\/ lastPoll'.op = "fail"
        \/ /\ lastPoll'.op = "response"
           /\ ~(lastPoll'.reply.success
                  /\ Len(lastPoll'.reply.commands) > 0))
          => /\ executed' = executed
             /\ lastPoll'.results = <<>>
             /\ UNCHANGED <<uiVars, inflight, alerts, pendingQueue,
                            intervalActive>>
             /\ intervalActive => Len(polls') < MaxPolls]_vars

\* The reply that carried drained commands was lost and the timer is live.
FailedPollWitness ==
    /\ lastPoll.op = "fail"
    /\ lastPoll.reply.stage = "served"
    /\ Len(lastPoll.reply.commands) > 0
    /\ intervalActive
    /\ ~unmounted

\* C16: a command that fails inside a poll batch does not stop the batch:
\* every command of an accepted reply is handed to executeUICommand, in the
\* order of the reply, whatever the commands before it returned.
FailureDoesNotStopBatch ==
    [][(/\ lastPoll'.op = "response"
        /\ lastPoll'.reply.success
        /\ Len(lastPoll'.reply.commands) > 0)
          => /\ executed' = executed \o lastPoll'.reply.commands
             /\ Len(lastPoll'.results) = Len(lastPoll'.reply.commands)
             /\ \A k \in 1..Len(lastPoll'.results) :
                    /\ lastPoll'.results[k].command =
                           lastPoll'.reply.commands[k]
                    /\ lastPoll'.results[k].success =
                           (lastPoll'.reply.commands[k] \notin faulty)]_vars

\* The first command of a batch failed and the two after it were executed.
FailureInBatchWitness ==
    /\ lastPoll.op = "response"
    /\ Len(lastPoll.results) = 3
    /\ ~lastPoll.results[1].success
    /\ lastPoll.results[3].success
    /\ executed = lastPoll.reply.commands

NoTickAfterTeardown ==
    [][/\ unmounted' => ~intervalActive'
       /\ unmounted => /\ lastPoll'.op # "tick"
                       /\ Len(polls') <= Len(polls)]_vars

\* Commands were enqueued after the teardown and no fetch is in flight.
NoTickWitness ==
    /\ unmounted
    /\ lastPoll.op = "enqueue"
    /\ pendingQueue # <<>>
    /\ polls = <<>>

\* C19: a poll response that arrives after the owning view was torn down is
\* discarded: no command is executed after teardown.
NoExecutionAfterTeardown ==
    [][unmounted => executed' = executed]_vars

\* C20: a stalled backend cannot wedge the poller: while one poll fetch never
\* completes, a command in the queue is eventually executed, unless the reply
\* that carries it is lost or the view is torn down.
StallDoesNotWedge ==
    \A c \in 1..MaxCmds :
        ((\E k \in 1..Len(polls) : polls[k].stage = "stalled")
            /\ c \in Range(pendingQueue))
        ~> (c \in Range(executed) \/ c \in lostCmds \/ unmounted)

\* A command enqueued after the stall was executed.
StallWitness ==
    /\ \E k \in 1..Len(polls) : polls[k].stage = "stalled"
    /\ lastPoll.op = "response"
    /\ Len(lastPoll.results) > 0
    /\ ~unmounted

\* C21: executing a command whose action is not one of the nine capability
\* names returns a failure result whose error names that action, does not
\* throw, invokes no capability (no primitive of the engine is called) and
\* leaves the sheet unchanged.
UnknownActionRejected ==
    (steps > 0 /\ exec.command.action \notin CapabilityNames) =>
        /\ ~exec.thrown
        /\ ~exec.result.success
        /\ exec.result.text = "unknown command"
        /\ exec.result.name = exec.command.action
        /\ exec.invoked = <<>>
        /\ luckysheet = exec.before

\* An unknown action was executed on a sheet that holds data, after a command
\* that changed it.
UnknownActionWitness ==
    /\ steps = 2
    /\ exec.command.action = "deleteSheet"
    /\ exec.before.present
    /\ exec.before.hidden # {}
    /\ ~exec.result.success

NoCapabilityThrows ==
    (steps > 0 /\ exec.command.action \in CapabilityNames) =>
        /\ ~exec.thrown
        /\ exec.result.success \in BOOLEAN
        /\ exec.result.text # ""
        /\ (exec.raised => ~exec.result.success)
        /\ (~exec.before.present =>
               /\ ~exec.result.success
               /\ exec.invoked = <<>>
               /\ luckysheet = exec.before)

\* A primitive raised after two calls of the capability had been served and
\* had changed the sheet; the capability returned a failure.
RaisingPrimitiveWitness ==
    /\ steps > 0
    /\ exec.command.action \in CapabilityNames
    /\ exec.raised
    /\ Len(exec.invoked) = 3
    /\ luckysheet # exec.before
    /\ ~exec.result.success

\* C24 (as stated): dispatching an answer-kind response with no answer text
\* whose result is an array of n > 1 row objects appends a message citing the
\* count n and replaces the sheet view with a result view of one header row
\* and exactly n data rows, without changing the table list, the active table
\* name or the confirmation state.
RowsReplyReplacesView ==
    [][(/\ last'.op = "dispatch"
        /\ last'.reply.outcome = "ok"
        /\ last'.reply.kind = "answer"
        /\ last'.reply.answer = ""
        /\ last'.reply.shape = "rows"
        /\ last'.reply.rows > 1)
          => /\ messages' = Append(DropLoading(messages),
                                   Msg("assistant", "answer",
                                       RowsReturned(last'.reply.rows), FALSE))
             /\ sheetData' = [name |-> AiResultName,
                              rows |-> last'.reply.rows]
             /\ UNCHANGED <<tables, activeTab, confirmData,
                            showConfirmModal>>]_vars

\* C24 (amended): such a response appends the message citing n and changes
\* neither the table list, the active table name nor the confirmation state;
\* it replaces the sheet view with the result view of n data rows when the
\* first row object has at least one key, and leaves the view as it was when
\* that object has none.
RowsReplyRendersColumns ==
    [][(/\ last'.op = "dispatch"
        /\ last'.reply.outcome = "ok"
        /\ last'.reply.kind = "answer"
        /\ last'.reply.answer = ""
        /\ last'.reply.shape = "rows"
        /\ last'.reply.rows > 1)
          => /\ messages' = Append(DropLoading(messages),
                                   Msg("assistant", "answer",
                                       RowsReturned(last'.reply.rows), FALSE))
             /\ last'.reply.cols > 0 =>
                    sheetData' = [name |-> AiResultName,
                                  rows |-> last'.reply.rows]
             /\ last'.reply.cols = 0 => sheetData' = sheetData
             /\ UNCHANGED <<tables, activeTab, confirmData,
                            showConfirmModal>>]_vars

\* A result of several rows with a column was dispatched while a table was
\* active and a ConfirmationRequest open: the view shows the result.
RowsReplyWitness ==
    /\ last.op = "dispatch"
    /\ last.reply.shape = "rows"
    /\ last.reply.rows > 1
    /\ last.reply.cols > 0
    /\ sheetData = [name |-> AiResultName, rows |-> last.reply.rows]
    /\ activeTab # Null
    /\ confirmData # NoConfirm

\* C25: a successful setConditionalFormat(column, operator, value, color,
\* bgColor) with operator in {<, >, =, contains} applies the colours to
\* exactly the data rows (header row 0 excluded) whose cell in that column
\* satisfies operator(cellValue, value), changes no other cell, and reports
\* a match count equal to the number of those rows.  An empty cell holds no
\* value and satisfies no operator.
ConditionalFormatExact ==
    LET before == exec.before
        command == exec.command
        col == FindColumn(before, command.column)
        style == [fc |-> command.color, bg |-> command.bgColor, bl |-> 0]
        satisfied == {r \in 1..(Len(before.rows) - 1) :
                         /\ ~CellAt(before.rows, r, col).nul
                         /\ Matches(CellAt(before.rows, r, col),
                                    command.operator, command.value)}
    IN (/\ steps > 0
        /\ command.action = "setConditionalFormat"
        /\ command.operator \in {"<", ">", "=", "contains"}
        /\ exec.result.success) =>
           /\ exec.result.count = Cardinality(satisfied)
           /\ \A r \in 0..(Len(before.rows) - 1) :
                 \A c \in 0..(ColCount(before) - 1) :
                    CellAt(luckysheet.rows, r, c) =
                        IF r \in satisfied /\ c = col
                          THEN Restyle(CellAt(before.rows, r, c), style)
                          ELSE CellAt(before.rows, r, c)

FreezeColumnsKeepsRows ==
    (/\ steps > 0
     /\ exec.command.action = "freezeColumns"
     /\ exec.result.success) =>
        /\ luckysheet.frozen.cols = exec.command.count
        /\ luckysheet.frozen.rows = exec.before.frozen.rows

\* C29: a successful autoFitColumnWidth sets, for each column, a width equal
\* to the largest text width among the first 100 rows of that column,
\* clamped to [50, 300]; the cells of rows beyond the first 100 never affect
\* the width.
WidthFitsFirstHundredRows ==
    LET before == exec.before
        scanned == 0..(Min(Len(before.rows), 100) - 1)
        widest(c) ==
            LET ws == {TextWidth(CellAt(before.rows, r, c)) : r \in scanned}
            IN CHOOSE w \in ws : \A v \in ws : v <= w
        clamped(w) == IF w < 50 THEN 50 ELSE IF w > 300 THEN 300 ELSE w
    IN (/\ steps > 0
        /\ exec.command.action = "autoFitColumnWidth"
        /\ exec.result.success) =>
           /\ luckysheet.widths =
                 {<<c, clamped(widest(c))>> : c \in 0..(ColCount(before) - 1)}
           /\ luckysheet.rows = before.rows

\* autoFitColumnWidth ran on a sheet of 101 rows whose only long text is in
\* the last row: the column got the least width.
WidthFitsWitness ==
    /\ steps > 0
    /\ exec.command.action = "autoFitColumnWidth"
    /\ exec.result.success
    /\ Len(exec.before.rows) = 101
    /\ exec.before.rows[101][1].v = Str(LongText)
    /\ luckysheet.widths = {<<0, 50>>}

\* C30: after a successful showAllRows no row is hidden, whatever
\* hideRowsWhere calls ran before: hideRowsWhere followed by showAllRows
\* restores the set of hidden rows to empty.
ShowAllRowsUnhidesAll ==
    (/\ steps > 0
     /\ exec.command.action = "showAllRows"
     /\ exec.result.success) =>
        /\ luckysheet.hidden = {}
        /\ luckysheet.rows = exec.before.rows

\* showAllRows ran after a hideRowsWhere that had hidden rows.
ShowAllRowsWitness ==
    /\ steps = 2
    /\ exec.command.action = "showAllRows"
    /\ exec.result.success
    /\ exec.before.hidden # {}
    /\ luckysheet.hidden = {}

\* C31: the target_name of the overwrite request sent by Commit is the table
\* that was active when the ConfirmationRequest was opened: whatever was
\* selected, deleted or loaded since the data response, Commit overwrites
\* the table the staged mutation was produced for.
CommitTargetsOpeningTable ==
    (last.op = "commit" /\ last.outcome = "sent")
        => last.sent[1].arg = openedFor


\* C32: for each ConfirmationRequest at most one resolution request is sent:
\* while the overwrite or rename request of a Commit or Save-As is in flight
\* for the temp table of the open request, an invocation of Commit, Save-As
\* or Discard sends no further request.
OneResolutionInFlight ==
    [][(/\ clicks' = clicks + 1
        /\ last'.op \in {"commit", "saveAs", "discard"}
        /\ \E k \in 1..Len(inflight) :
               /\ inflight[k].kind \in {"overwrite", "rename"}
               /\ inflight[k].src = confirmData.temp_table)
          => last'.sent = <<>>]_vars


\* C33: no temp table is orphaned: a step that clears the open
\* ConfirmationRequest, or replaces it by one for another temp table, is
\* taken only when a resolution request (overwrite, rename or delete) for
\* the temp table of the open request has been sent.
NoTempTableOrphaned ==
    [][(/\ confirmData # NoConfirm
        /\ confirmData'.temp_table # confirmData.temp_table)
          => confirmData.temp_table \in requested]_vars


\* The calls a query is waiting for: the query request itself, or the table
\* list or view its dispatch awaits before the final message.
AwaitedByQuery(c) ==
    c.kind = "query" \/ c.then \in {"data", "dataView", "legacy"}

QueriesInFlight == {k \in 1..Len(inflight) : AwaitedByQuery(inflight[k])}

\* C34: at most one query is in progress at any time, and the loading flag
\* is set exactly while one is: a message sent while the flag is set issues
\* no request, and a query that has ended, by whichever path, has left the
\* flag cleared.
OneQueryAndFlagFollowsIt ==
    /\ Cardinality(QueriesInFlight) <= 1
    /\ isLoading <=> QueriesInFlight # {}

\* A query has ended by an exception raised while its reply was dispatched,
\* after an earlier query had ended as well: the flag is cleared again.
QueryEndedWitness ==
    /\ last.op = "dispatch"
    /\ last.outcome = "threw"
    /\ UserMessages(messages) = MaxQueries
    /\ ~isLoading
    /\ QueriesInFlight = {}


\* C35: Commit invoked with a ConfirmationRequest open and no table active
\* sends no request, shows no message and no alert, and leaves the request
\* open with the same temp table.
CommitWithoutTableIsNoOp ==
    [][(/\ clicks' = clicks + 1
        /\ last'.op = "commit"
        /\ confirmData # NoConfirm
        /\ activeTab = Null)
          => /\ inflight' = inflight
             /\ last'.sent = <<>>
             /\ UNCHANGED <<uiVars, alerts>>]_vars

\* Commit was refused with a request open after the active table had been
\* deleted.
CommitWithoutTableWitness ==
    /\ last.op = "commit"
    /\ last.outcome = "noop"
    /\ confirmData # NoConfirm
    /\ showConfirmModal
    /\ activeTab = Null
    /\ \E k \in 1..Len(messages) : messages[k].text = "deleted"

====
